---- MODULE Spec2Model ----
(***************************************************************************)
(* Model of the two document processors of the repository:                 *)
(*   src/document_processor.py     DocumentProcessor (regular expressions) *)
(*   src/ai_document_processor.py  AIDocumentProcessor (constant record)   *)
(*                                                                         *)
(* A text is abstracted by what the regular expressions of the extraction  *)
(* methods find in it: the set of patterns that match, and, for the four   *)
(* patterns that capture a date, whether the captured string is accepted   *)
(* by datetime.strptime(.., "%B %d, %Y").  Captured groups are kept as     *)
(* symbolic strings ("name_match.group(1)").                               *)
(***************************************************************************)
EXTENDS Integers, Sequences, FiniteSets, TLC

VARIABLES
    text_content,     \* DocumentProcessor.text_content
    extracted_data,   \* DocumentProcessor.extracted_data: list of rows
    processing_log,   \* DocumentProcessor.processing_log: list of entries
    xlsx_file,        \* the file save_to_excel writes
    json_file,        \* the file save_to_json writes
    pc,               \* position of the caller: demo_usage's next call, or "client"
    calls,            \* number of calls a free client has made
    ret,              \* outcome of the last call: operation, exception, value
    returned,         \* history: text and row list of every process_all that returned
    ai_data,          \* argument of AIDocumentProcessor.structure_ai_output
    structured_data,  \* list returned by structure_ai_output / process_document
    ai_pc,            \* position of the caller of the AIDocumentProcessor
    api_key,          \* AIDocumentProcessor.api_key
    ai_text,          \* text_content of the last process_document call
    ai_xlsx_file,     \* the file AIDocumentProcessor.save_to_excel writes
    ai_json_file,     \* the file AIDocumentProcessor.save_to_json writes
    ai_calls,         \* number of calls made on the AIDocumentProcessor
    ai_ret,           \* outcome of the last call on the AIDocumentProcessor
    ai_returned       \* history: text and row list of every process_document

vars == <<text_content, extracted_data, processing_log, xlsx_file, json_file,
          pc, calls, ret, returned, ai_data, structured_data, ai_pc,
          api_key, ai_text, ai_xlsx_file, ai_json_file, ai_calls, ai_ret, ai_returned>>

dp_vars == <<text_content, extracted_data, processing_log, xlsx_file, json_file,
             pc, calls, ret, returned>>

ai_vars == <<ai_data, structured_data, ai_pc,
             api_key, ai_text, ai_xlsx_file, ai_json_file, ai_calls, ai_ret, ai_returned>>

(***************************************************************************)
(* Bounds of the model.                                                    *)
(***************************************************************************)
MaxMissed  == 1   \* texts in which at most this many patterns fail to match
MaxMatched == 1   \* texts in which at most this many patterns match
MaxCalls   == 3   \* calls made by a free client of one DocumentProcessor
MaxRuns    == 2   \* process_all calls that return, per DocumentProcessor

(***************************************************************************)
(* The regular expressions, named after the variable that holds the match. *)
(***************************************************************************)
PersonalPatterns ==
    {"name_match", "dob_match", "birth_match", "age_match", "blood_match",
     "nationality_match"}

ProfessionalPatterns ==
    {"first_job_match", "current_job_match", "prev_job_match",
     "prev_designation_match"}

EducationPatterns ==
    {"hs_match", "year12_match", "score12_match", "ug_match", "ug_college_match",
     "ug_year_match", "ug_cgpa_match", "grad_match", "grad_college_match",
     "grad_cgpa_match"}

CertificationPatterns == {"aws_match", "azure_match", "pmp_match", "safe_match"}

TechnicalPatterns == {"tech_section"}

Patterns ==
    PersonalPatterns \cup ProfessionalPatterns \cup EducationPatterns
        \cup CertificationPatterns \cup TechnicalPatterns

\* the patterns whose first captured date goes through datetime.strptime
DatePatterns == {"dob_match", "first_job_match", "current_job_match", "prev_job_match"}

RECURSIVE SubsetsUpTo(_, _)
SubsetsUpTo(S, k) ==
    IF k = 0 THEN {{}}
    ELSE LET P == SubsetsUpTo(S, k - 1) IN P \cup {p \cup {x} : p \in P, x \in S}

MatchSets ==
    {Patterns \ m : m \in SubsetsUpTo(Patterns, MaxMissed)}
        \cup SubsetsUpTo(Patterns, MaxMatched)

\* None, "", a non-empty str, and a truthy object that is no str (bytes, int)
NoneText   == [kind |-> "None",   matches |-> {}, baddates |-> {}]
EmptyText  == [kind |-> "empty",  matches |-> {}, baddates |-> {}]
NonStrText == [kind |-> "nonstr", matches |-> {}, baddates |-> {}]

StrTexts ==
    {[kind |-> "str", matches |-> m, baddates |-> b] :
        m \in MatchSets, b \in SUBSET DatePatterns}

Texts ==
    {NoneText, EmptyText, NonStrText}
        \cup {t \in StrTexts : t.baddates \subseteq t.matches}

\* sample_text of demo_usage: every pattern matches, every date parses
sample_text == [kind |-> "str", matches |-> Patterns, baddates |-> {}]

\* a text none of the patterns matches
PlainText == [kind |-> "str", matches |-> {}, baddates |-> {}]

\* a text in which every pattern matches and none of the dates parses
BadDatesText == [kind |-> "str", matches |-> Patterns, baddates |-> DatePatterns]

\* what the files a client loads may hold (file.read() returns a str)
FileContents == {sample_text, PlainText, EmptyText}

\* the texts a free client constructs its DocumentProcessor with
ClientTexts == {NoneText, EmptyText, NonStrText, sample_text, PlainText, BadDatesText}

\* Python truth value of text_content ("if not self.text_content")
Truthy(t) == t.kind \in {"str", "nonstr"}

(***************************************************************************)
(* Rows and log entries.                                                   *)
(***************************************************************************)
\* one dictionary {"#", "Key", "Value", "Comments"} of extracted_data
Row(n, k, v, c) == [num |-> n, Key |-> k, Value |-> v, Comments |-> c]

\* one string of processing_log: its icon, what it is about, the number it formats
Entry(icon, about) == [icon |-> icon, about |-> about, n |-> 0]

StartEntry == Entry("start", "document processing")

CompleteEntry(count) == [icon |-> "ok", about |-> "Processing complete", n |-> count]

IfMatch(t, p, rows) == IF p \in t.matches THEN rows ELSE <<>>

\* the value each bare "except:" around datetime.strptime assigns
DateFallback(p) ==
    CASE p = "dob_match"         -> "1989-03-15 00:00:00"
      [] p = "first_job_match"   -> "2012-07-01 00:00:00"
      [] p = "current_job_match" -> "2021-06-15 00:00:00"
      [] p = "prev_job_match"    -> "2018-02-01 00:00:00"

\* datetime.strptime(s, "%B %d, %Y").strftime("%Y-%m-%d 00:00:00"), or the
\* value of the bare "except:" when strptime rejects the captured string
ParsedDate(t, p) ==
    IF p \in t.baddates THEN DateFallback(p) ELSE "strftime(strptime(group(1)))"

\* the state an extraction method works on: the two lists, and the exception
\* that is propagating out of the calls made so far ("none": no exception)
Running(st) == st.exc = "none"

\* a method body that puts its rows in front of the rows found so far
TrySection_Prepends(t, st, rows, about) ==
    IF ~Running(st) THEN st
    ELSE IF t.kind = "str"
         THEN [st EXCEPT !.data = rows \o st.data,
                         !.log = Append(st.log, Entry("ok", about))]
         ELSE [st EXCEPT !.log = Append(st.log, Entry("err", about))]

\* a method body "try: <rows appended>; log.append(ok) except Exception: log.append(err)";
\* re.search raises TypeError on the first pattern when the text is no str
TrySection(t, st, rows, about) ==
    IF ~Running(st) THEN st
    ELSE IF t.kind = "str"
         THEN [st EXCEPT !.data = st.data \o rows,
                         !.log = Append(st.log, Entry("ok", about))]
         ELSE [st EXCEPT !.log = Append(st.log, Entry("err", about))]

(***************************************************************************)
(* DocumentProcessor: the five extraction methods.                         *)
(***************************************************************************)
PersonalRows(t) ==
    IfMatch(t, "name_match",
        <<Row(1, "First Name", "name_match.group(1)", ""),
          Row(2, "Last Name", "name_match.group(2)", "")>>)
    \o IfMatch(t, "dob_match",
        <<Row(3, "Date of Birth", ParsedDate(t, "dob_match"), "")>>)
    \o IfMatch(t, "birth_match",
        <<Row(4, "Birth City", "birth_match.group(2)",
              "Born and raised in the Pink City of India, his birthplace provides valuable regional profiling context"),
          Row(5, "Birth State", "birth_match.group(3)",
              "Born and raised in the Pink City of India, his birthplace provides valuable regional profiling context")>>)
    \o IfMatch(t, "age_match",
        <<Row(6, "Age", "age_match.group(1) years",
              "As on year 2024. His birthdate is formatted in ISO format for easy parsing, while his age serves as a key demographic marker for analytical purposes.")>>)
    \o IfMatch(t, "blood_match",
        <<Row(7, "Blood Group", "O+", "Emergency contact purposes.")>>)
    \o IfMatch(t, "nationality_match",
        <<Row(8, "Nationality", "nationality_match.group(1)",
              "Citizenship status is important for understanding his work authorization and visa requirements across different employment opportunities.")>>)

extract_personal_info(t, st) ==
    TrySection(t, st, PersonalRows(t), "Personal information")

\* the starting designation is searched only inside "if prev_job_match:"
PreviousJobRows(t) ==
    IfMatch(t, "prev_job_match",
        <<Row(18, "Previous Organization", "prev_job_match.group(1)", ""),
          Row(19, "Previous Joining Date",
              ParsedDate(t, "prev_job_match"), ""),
          Row(20, "Previous end year", "prev_job_match.group(3)", "")>>
        \o IfMatch(t, "prev_designation_match",
            <<Row(21, "Previous Starting Designation",
                  "prev_designation_match.group(1)", "Promoted in 2019")>>))

ProfessionalRows(t) ==
    IfMatch(t, "first_job_match",
        <<Row(9, "Joining Date of first professional role",
              ParsedDate(t, "first_job_match"), ""),
          Row(10, "Designation of first professional role", "first_job_match.group(2)", ""),
          Row(11, "Salary of first professional role",
              "first_job_match.group(3).replace(',', '')", ""),
          Row(12, "Salary currency of first professional role",
              "first_job_match.group(4)", "")>>)
    \o IfMatch(t, "current_job_match",
        <<Row(13, "Current Organization", "current_job_match.group(1)", ""),
          Row(14, "Current Joining Date",
              ParsedDate(t, "current_job_match"), ""),
          Row(15, "Current Designation", "current_job_match.group(3)", ""),
          Row(16, "Current Salary", "current_job_match.group(4).replace(',', '')",
              "This salary progression from his starting compensation to his current peak salary of 2,800,000 INR represents a substantial eight-fold increase over his twelve-year career span."),
          Row(17, "Current Salary Currency", "current_job_match.group(5)", "")>>)
    \o PreviousJobRows(t)

\* extract_professional_info without its "except Exception": the TypeError of
\* re.search leaves the method
extract_professional_info_NoExcept(t, st) ==
    IF Running(st) /\ t.kind # "str"
    THEN [st EXCEPT !.exc = "TypeError"]
    ELSE TrySection(t, st, ProfessionalRows(t), "Professional information")

extract_professional_info(t, st) ==
    TrySection(t, st, ProfessionalRows(t), "Professional information")

\* a "Graduation year" row that is appended only when the degree was found
GraduationYearRows_IfMatched(t) ==
    IfMatch(t, "grad_match", <<Row(31, "Graduation year", "2013", "")>>)

\* the "Graduation year" row is appended without any search of the text
GraduationYearRows(t) == <<Row(31, "Graduation year", "2013", "")>>

EducationRows(t) ==
    IfMatch(t, "hs_match", <<Row(22, "High School", "hs_match.group(1)", "")>>)
    \o IfMatch(t, "year12_match",
        <<Row(23, "12th standard pass out year", "year12_match.group(1)",
              "His core subjects included Mathematics, Physics, Chemistry, and Computer Science, demonstrating his early aptitude for technical disciplines.")>>)
    \o IfMatch(t, "score12_match",
        <<Row(24, "12th overall board score", "float(score12_match.group(1)) / 100",
              "Outstanding achievement")>>)
    \o IfMatch(t, "ug_match",
        <<Row(25, "Undergraduate degree", "B.Tech (ug_match.group(1))", "")>>)
    \o IfMatch(t, "ug_college_match",
        <<Row(26, "Undergraduate college", "ug_college_match.group(1)", "")>>)
    \o IfMatch(t, "ug_year_match",
        <<Row(27, "Undergraduate year", "ug_year_match.group(1)",
              "Graduating with honors and ranking 15th among 120 students in his class.")>>)
    \o IfMatch(t, "ug_cgpa_match",
        <<Row(28, "Undergraduate CGPA", "float(ug_cgpa_match.group(1))",
              "On a 10-point scale")>>)
    \o IfMatch(t, "grad_match",
        <<Row(29, "Graduation degree", "M.Tech (grad_match.group(1))", "")>>)
    \o IfMatch(t, "grad_college_match",
        <<Row(30, "Graduation college", "IIT Bombay",
              "Continued academic excellence at IIT Bombay")>>)
    \o GraduationYearRows(t)
    \o IfMatch(t, "grad_cgpa_match",
        <<Row(32, "Graduation CGPA", "float(grad_cgpa_match.group(1))",
              "Considered exceptional and scoring 95 out of 100 for his final year thesis project.")>>)

extract_education_info(t, st) ==
    TrySection(t, st, EducationRows(t), "Education information")

CertificationRows(t) ==
    IfMatch(t, "aws_match",
        <<Row(33, "Certifications 1", "AWS Solutions Architect",
              "Vijay's commitment to continuous learning is evident through his impressive certification scores. He passed the AWS Solutions Architect exam in {aws_match.group(1)} with a score of {aws_match.group(2)} out of 1000")>>)
    \o IfMatch(t, "azure_match",
        <<Row(34, "Certifications 2", "Azure Data Engineer",
              "Pursued in the year {azure_match.group(1)} with {azure_match.group(2)} points.")>>)
    \o IfMatch(t, "pmp_match",
        <<Row(35, "Certifications 3", "Project Management Professional certification",
              "Obtained in {pmp_match.group(1)}, was achieved with an \"Above Target\" rating from PMI, These certifications complement his practical experience and demonstrate his expertise across multiple technology platforms.")>>)
    \o IfMatch(t, "safe_match",
        <<Row(36, "Certifications 4", "SAFe Agilist certification",
              "Earned him an outstanding {safe_match.group(1)}% score. Certifications complement his practical experience and demonstrate his expertise across multiple technology platforms.")>>)

extract_certifications(t, st) ==
    TrySection(t, st, CertificationRows(t), "Certifications")

TechnicalRows(t) ==
    IfMatch(t, "tech_section",
        <<Row(37, "Technical Proficiency", "", "tech_section.group(0).strip()")>>)

extract_technical_proficiency(t, st) ==
    TrySection(t, st, TechnicalRows(t), "Technical proficiency")

(***************************************************************************)
(* DocumentProcessor.process_all, as a function of the object's fields:    *)
(* the fields after the call and the exception it raises ("none": it       *)
(* returns self.extracted_data).                                           *)
(***************************************************************************)
\* process_all without "if not self.text_content: raise ValueError"
ProcessAllResult_NoGuard(t, data, log) ==
    LET s0 == [data |-> data, log |-> Append(log, StartEntry), exc |-> "none"]
        s1 == extract_personal_info(t, s0)
        s2 == extract_professional_info(t, s1)
        s3 == extract_education_info(t, s2)
        s4 == extract_certifications(t, s3)
        s5 == extract_technical_proficiency(t, s4)
    IN  [s5 EXCEPT !.log = Append(s5.log, CompleteEntry(Len(s5.data)))]

\* process_all whose completion entry counts the rows of this call only
ProcessAllResult_CountsNewRows(t, data, log) ==
    IF ~Truthy(t)
    THEN [data |-> data, log |-> log, exc |-> "ValueError"]
    ELSE LET s0 == [data |-> data, log |-> Append(log, StartEntry), exc |-> "none"]
             s1 == extract_personal_info(t, s0)
             s2 == extract_professional_info(t, s1)
             s3 == extract_education_info(t, s2)
             s4 == extract_certifications(t, s3)
             s5 == extract_technical_proficiency(t, s4)
         IN  [s5 EXCEPT !.log = Append(s5.log, CompleteEntry(Len(s5.data) - Len(data)))]

ProcessAllResult(t, data, log) ==
    IF ~Truthy(t)
    THEN [data |-> data, log |-> log, exc |-> "ValueError"]
    ELSE LET s0 == [data |-> data, log |-> Append(log, StartEntry), exc |-> "none"]
             s1 == extract_personal_info(t, s0)
             s2 == extract_professional_info(t, s1)
             s3 == extract_education_info(t, s2)
             s4 == extract_certifications(t, s3)
             s5 == extract_technical_proficiency(t, s4)
         IN  IF Running(s5)
             THEN [s5 EXCEPT !.log = Append(s5.log, CompleteEntry(Len(s5.data)))]
             ELSE s5

(***************************************************************************)
(* Output files.  A file is absent, holds what an earlier run left there   *)
(* ("previous"), holds a complete export of some rows, or holds the        *)
(* beginning of an export that failed after the file was opened for        *)
(* writing ("partial").                                                    *)
(***************************************************************************)
AbsentFile   == [state |-> "absent",   rows |-> <<>>]
PreviousFile == [state |-> "previous", rows |-> <<>>]
CompleteFile(rows) == [state |-> "complete", rows |-> rows]
PartialFile(rows)  == [state |-> "partial",  rows |-> rows]

\* how the operating system answers one export
IoOutcomes == {"ok", "open_fails", "write_fails"}

\* the destination after open(filename, 'w') and the write of the rows
WrittenFile(file, rows, io) ==
    CASE io = "ok"          -> CompleteFile(rows)
      [] io = "open_fails"  -> file
      [] io = "write_fails" -> PartialFile(rows)

\* an export without "if not self.extracted_data: raise ValueError"
SaveResult_NoCheck(data, log, file, io, about) ==
    IF io = "ok"
    THEN [data |-> data, log |-> Append(log, Entry("ok", about)),
          file |-> WrittenFile(file, data, io), exc |-> "none"]
    ELSE [data |-> data, log |-> Append(log, Entry("err", about)),
          file |-> WrittenFile(file, data, io), exc |-> "OSError"]

\* an export that consumes the list it writes
SaveResult_ClearsRows(data, log, file, io, about) ==
    IF data = <<>>
    THEN [data |-> data, log |-> Append(log, Entry("err", about)), file |-> file,
          exc |-> "ValueError"]
    ELSE IF io = "ok"
         THEN [data |-> <<>>, log |-> Append(log, Entry("ok", about)),
               file |-> WrittenFile(file, data, io), exc |-> "none"]
         ELSE [data |-> <<>>, log |-> Append(log, Entry("err", about)),
               file |-> WrittenFile(file, data, io), exc |-> "OSError"]

\* save_to_excel and save_to_json have the same shape:
\*   try: if not data: raise ValueError; <write>; log.append(ok)
\*   except Exception as e: log.append(err); raise
SaveResult(data, log, file, io, about) ==
    IF data = <<>>
    THEN [data |-> data, log |-> Append(log, Entry("err", about)), file |-> file,
          exc |-> "ValueError"]
    ELSE IF io = "ok"
         THEN [data |-> data, log |-> Append(log, Entry("ok", about)),
               file |-> WrittenFile(file, data, io), exc |-> "none"]
         ELSE [data |-> data, log |-> Append(log, Entry("err", about)),
               file |-> WrittenFile(file, data, io), exc |-> "OSError"]

\* f"{len/37*100:.1f}%" in tenths of a percent; "100%" when len = 37
Accuracy(count) == IF count = 37 THEN 1000 ELSE (count * 2000 + 37) \div 74

Ret(op, exc, n, acc) == [op |-> op, exc |-> exc, n |-> n, accuracy |-> acc]

(***************************************************************************)
(* The caller.  demo_usage calls process_all, save_to_excel, save_to_json  *)
(* and get_processing_summary in this order on a fresh processor, and an   *)
(* exception of any of them ends it.  A free client ("client") calls the   *)
(* methods in any order and goes on after an exception.                    *)
(***************************************************************************)
MayCall(op) == (pc = "client" /\ calls < MaxCalls) \/ pc = op

DemoNext(op) ==
    CASE op = "process_all"            -> "save_to_excel"
      [] op = "save_to_excel"          -> "save_to_json"
      [] op = "save_to_json"           -> "get_processing_summary"
      [] op = "get_processing_summary" -> "done"

After(op, exc) ==
    IF pc = "client" THEN "client"
    ELSE IF exc # "none" THEN "aborted" ELSE DemoNext(op)

InitFiles == {AbsentFile, PreviousFile}

\* DocumentProcessor(text_content): both lists empty
InitProcessor ==
    /\ extracted_data = <<>>
    /\ processing_log = <<>>
    /\ calls = 0
    /\ ret = Ret("__init__", "none", 0, 0)
    /\ returned = <<>>
    /\ xlsx_file \in InitFiles
    /\ json_file \in InitFiles

InitDemo == pc = "process_all" /\ text_content \in Texts

InitClient == pc = "client" /\ text_content \in ClientTexts

\* what the AIDocumentProcessor's caller holds before its first call
AiRet(op, exc) == [op |-> op, exc |-> exc]

InitAICaller ==
    /\ structured_data = <<>>
    /\ ai_text = NoneText
    /\ ai_calls = 0
    /\ ai_ret = AiRet("__init__", "none")
    /\ ai_returned = <<>>

InitAIIdle ==
    /\ InitAICaller
    /\ ai_data = <<>>
    /\ ai_pc = "idle"
    /\ api_key = "None"
    /\ ai_xlsx_file = AbsentFile
    /\ ai_json_file = AbsentFile

Init == InitProcessor /\ (InitDemo \/ InitClient) /\ InitAIIdle

process_all ==
    /\ MayCall("process_all")
    /\ Len(returned) < MaxRuns
    /\ LET r == ProcessAllResult(text_content, extracted_data, processing_log)
       IN  /\ extracted_data' = r.data
           /\ processing_log' = r.log
           /\ ret' = Ret("process_all", r.exc, Len(r.data), 0)
           /\ returned' = IF r.exc = "none"
                          THEN Append(returned, [text |-> text_content, rows |-> r.data])
                          ELSE returned
           /\ pc' = After("process_all", r.exc)
    /\ calls' = calls + 1
    /\ UNCHANGED <<text_content, xlsx_file, json_file, ai_vars>>

save_to_excel ==
    /\ MayCall("save_to_excel")
    /\ \E io \in IoOutcomes :
         LET r == SaveResult(extracted_data, processing_log, xlsx_file, io, "saving to Excel")
         IN  /\ extracted_data' = r.data
             /\ processing_log' = r.log
             /\ xlsx_file' = r.file
             /\ ret' = Ret("save_to_excel", r.exc, 0, 0)
             /\ pc' = After("save_to_excel", r.exc)
    /\ calls' = calls + 1
    /\ UNCHANGED <<text_content, json_file, returned, ai_vars>>

save_to_json ==
    /\ MayCall("save_to_json")
    /\ \E io \in IoOutcomes :
         LET r == SaveResult(extracted_data, processing_log, json_file, io, "saving to JSON")
         IN  /\ extracted_data' = r.data
             /\ processing_log' = r.log
             /\ json_file' = r.file
             /\ ret' = Ret("save_to_json", r.exc, 0, 0)
             /\ pc' = After("save_to_json", r.exc)
    /\ calls' = calls + 1
    /\ UNCHANGED <<text_content, xlsx_file, returned, ai_vars>>

\* a summary that refuses a row count other than the expected one
SummaryResult_Strict(data, log) ==
    [data |-> data, log |-> log,
     exc |-> IF Len(data) = 37 THEN "none" ELSE "ValueError",
     total_records |-> Len(data), accuracy |-> Accuracy(Len(data))]

\* the dictionary get_processing_summary returns, and the two lists after it
SummaryResult(data, log) ==
    [data |-> data, log |-> log, exc |-> "none",
     total_records |-> Len(data), accuracy |-> Accuracy(Len(data))]

get_processing_summary ==
    /\ MayCall("get_processing_summary")
    /\ LET r == SummaryResult(extracted_data, processing_log)
       IN  /\ extracted_data' = r.data
           /\ processing_log' = r.log
           /\ ret' = Ret("get_processing_summary", r.exc, r.total_records, r.accuracy)
           /\ pc' = After("get_processing_summary", r.exc)
    /\ calls' = calls + 1
    /\ UNCHANGED <<text_content, xlsx_file, json_file, returned, ai_vars>>

\* a load that empties text_content when the file cannot be read
LoadResult_ClearsOnError(t, log, content, io) ==
    IF io = "ok"
    THEN [text |-> content, log |-> Append(log, Entry("ok", "Loaded content")),
          exc |-> "none"]
    ELSE [text |-> EmptyText, log |-> Append(log, Entry("err", "loading file")),
          exc |-> "OSError"]

\* a load that starts the log afresh
LoadResult_ResetsLog(t, log, content, io) ==
    IF io = "ok"
    THEN [text |-> content, log |-> <<Entry("ok", "Loaded content")>>, exc |-> "none"]
    ELSE [text |-> t, log |-> <<Entry("err", "loading file")>>, exc |-> "OSError"]

\* open(file_path) or file.read() fails, or text_content becomes the content
LoadResult(t, log, content, io) ==
    IF io = "ok"
    THEN [text |-> content, log |-> Append(log, Entry("ok", "Loaded content")),
          exc |-> "none"]
    ELSE [text |-> t, log |-> Append(log, Entry("err", "loading file")),
          exc |-> "OSError"]

load_from_file ==
    /\ MayCall("load_from_file")
    /\ \E content \in FileContents, io \in {"ok", "open_fails"} :
         LET r == LoadResult(text_content, processing_log, content, io)
         IN  /\ text_content' = r.text
             /\ processing_log' = r.log
             /\ ret' = Ret("load_from_file", r.exc, 0, 0)
             /\ pc' = After("load_from_file", r.exc)
    /\ calls' = calls + 1
    /\ UNCHANGED <<extracted_data, xlsx_file, json_file, returned, ai_vars>>

Next ==
    \/ process_all
    \/ save_to_excel
    \/ save_to_json
    \/ get_processing_summary
    \/ load_from_file

Spec == Init /\ [][Next]_vars

(***************************************************************************)
(* The fields of the extraction methods: the hard-coded "#" of each row    *)
(* and the pattern whose "if <match>:" encloses its append.                *)
(***************************************************************************)
FieldNumbers == 1..37

FieldPattern(n) ==
    CASE n \in {1, 2}  -> "name_match"
      [] n = 3         -> "dob_match"
      [] n \in {4, 5}  -> "birth_match"
      [] n = 6         -> "age_match"
      [] n = 7         -> "blood_match"
      [] n = 8         -> "nationality_match"
      [] n \in 9..12   -> "first_job_match"
      [] n \in 13..17  -> "current_job_match"
      [] n \in 18..20  -> "prev_job_match"
      [] n = 21        -> "prev_designation_match"
      [] n = 22        -> "hs_match"
      [] n = 23        -> "year12_match"
      [] n = 24        -> "score12_match"
      [] n = 25        -> "ug_match"
      [] n = 26        -> "ug_college_match"
      [] n = 27        -> "ug_year_match"
      [] n = 28        -> "ug_cgpa_match"
      [] n = 29        -> "grad_match"
      [] n = 30        -> "grad_college_match"
      [] n = 31        -> "no pattern"
      [] n = 32        -> "grad_cgpa_match"
      [] n = 33        -> "aws_match"
      [] n = 34        -> "azure_match"
      [] n = 35        -> "pmp_match"
      [] n = 36        -> "safe_match"
      [] n = 37        -> "tech_section"

\* the row that carries the date a pattern captures
DateRowNumber(p) ==
    CASE p = "dob_match"         -> 3
      [] p = "first_job_match"   -> 9
      [] p = "current_job_match" -> 14
      [] p = "prev_job_match"    -> 19

(***************************************************************************)
(* Vocabulary of the claims.                                               *)
(***************************************************************************)
\* the state right after a process_all that returned
JustProcessed == ret.op = "process_all" /\ ret.exc = "none"

\* ... the first one of this processor, run on a str
FirstRunOnStr ==
    JustProcessed /\ Len(returned) = 1 /\ text_content.kind = "str"

\* a step of process_all
ProcessAllStep == ret'.op = "process_all" /\ calls' = calls + 1

Numbered1ToN(rows) == \A i \in DOMAIN rows : rows[i].num = i

HasRow(rows, n) == \E i \in DOMAIN rows : rows[i].num = n

\* a log entry that reports that pattern p found nothing
NoMatchEntry(e, p) == e.icon = "no_match" /\ e.about = p

\* a log entry that reports that the date captured by pattern p did not parse
TransformErrorEntry(e, p) == e.icon = "transform_error" /\ e.about = p

SectionNames ==
    <<"Personal information", "Professional information", "Education information",
      "Certifications", "Technical proficiency">>

\* log is old followed by the seven entries of one complete process_all
SevenEntries(old, log) ==
    /\ Len(log) = Len(old) + 7
    /\ SubSeq(log, 1, Len(old)) = old
    /\ log[Len(old) + 1] = StartEntry
    /\ \A k \in 1..5 :
          /\ log[Len(old) + 1 + k].about = SectionNames[k]
          /\ log[Len(old) + 1 + k].icon \in {"ok", "err"}
    /\ log[Len(old) + 7].about = "Processing complete"

(***************************************************************************)
(* C1..C8: DocumentProcessor.process_all.                                  *)
(***************************************************************************)
\* C1: the rows the first process_all of a processor returns carry the
\* numbers 1..len(rows) in list order, whichever patterns matched.
C1_NumbersContiguous ==
    Len(returned) >= 1 => Numbered1ToN(returned[1].rows)

\* C2: two process_all calls of one processor on the same text return the
\* same rows; nothing of the first run is carried over into the second.
C2_SecondRunSameRows ==
    \A i, j \in DOMAIN returned :
        returned[i].text = returned[j].text => returned[i].rows = returned[j].rows

\* C3: process_all on None or "" raises the empty-input error before any
\* extraction step: rows, log and files are as before the call, and
\* demo_usage ends there, with no row, no log entry and no file written.
C3_EmptyInputRaises ==
    /\ [][(ProcessAllStep /\ ~Truthy(text_content)) =>
            /\ ret'.exc = "ValueError"
            /\ UNCHANGED <<extracted_data, processing_log, xlsx_file, json_file>>
            /\ (pc # "client" => pc' = "aborted")]_vars
    /\ [](pc = "aborted" /\ ret.op = "process_all" =>
            /\ extracted_data = <<>>
            /\ processing_log = <<>>
            /\ xlsx_file \in InitFiles
            /\ json_file \in InitFiles)

C3_Witness ==
    /\ pc = "aborted"
    /\ text_content = EmptyText
    /\ ret = Ret("process_all", "ValueError", 0, 0)

\* C4: on a non-empty text process_all returns normally and has attempted
\* all five sections in order (each leaves its entry in the log), whichever
\* patterns fail to match and even when the sections raise.
C4_FieldFailuresNeverAbort ==
    [][(ProcessAllStep /\ Truthy(text_content)) =>
          /\ ret'.exc = "none"
          /\ pc' # "aborted"
          /\ SevenEntries(processing_log, processing_log')
          /\ returned' = Append(returned, [text |-> text_content,
                                           rows |-> extracted_data'])]_vars

\* every section raised (the text is no str) and process_all returned
C4_Witness ==
    /\ JustProcessed
    /\ text_content = NonStrText
    /\ \A k \in 1..5 : processing_log[1 + k].icon = "err"

\* C5: after process_all, every pattern the text lacks has no row, has a
\* no-match entry in the log, and the run has completed.
C5_NoMatchLogged ==
    FirstRunOnStr =>
        \A n \in FieldNumbers :
            FieldPattern(n) \in Patterns \ text_content.matches =>
                /\ ~HasRow(extracted_data, n)
                /\ \E i \in DOMAIN processing_log :
                       NoMatchEntry(processing_log[i], FieldPattern(n))

\* C6: the number of rows equals the number of fields whose pattern matched:
\* every row belongs to a pattern that matched.
C6_RowsAreMatchedFields ==
    FirstRunOnStr =>
        /\ \A i \in DOMAIN extracted_data :
               FieldPattern(extracted_data[i].num) \in text_content.matches
        /\ Len(extracted_data) =
               Cardinality({n \in FieldNumbers : FieldPattern(n) \in text_content.matches})

\* C7: when a date pattern matches and the captured string does not parse,
\* the row holds the field's default and the log holds a transform-error entry.
C7_BadDateLogged ==
    FirstRunOnStr =>
        \A p \in text_content.baddates :
            /\ \E i \in DOMAIN extracted_data :
                   /\ extracted_data[i].num = DateRowNumber(p)
                   /\ extracted_data[i].Value = DateFallback(p)
            /\ \E i \in DOMAIN processing_log :
                   TransformErrorEntry(processing_log[i], p)

\* C8: a field's row is emitted exactly when the field's own pattern matches,
\* whatever the other patterns do.
C8_NoChaining ==
    FirstRunOnStr =>
        \A n \in FieldNumbers :
            FieldPattern(n) \in Patterns =>
                (HasRow(extracted_data, n) <=> FieldPattern(n) \in text_content.matches)

(***************************************************************************)
(* AIDocumentProcessor.  A dict is the sequence of its <<key, value>>      *)
(* items in insertion order; a lookup table is a function on its keys.     *)
(***************************************************************************)
\* dict.get(key, default)
Get(d, key, default) == IF key \in DOMAIN d THEN d[key] ELSE default

\* the literal simulate_ai_extraction builds
ai_extraction ==
    [personal_info |->
        <<<<"first_name", "Vijay">>, <<"last_name", "Kumar">>,
          <<"date_of_birth", "1989-03-15 00:00:00">>, <<"birth_city", "Jaipur">>,
          <<"birth_state", "Rajasthan">>, <<"age", "35 years">>,
          <<"blood_group", "O+">>, <<"nationality", "Indian">>>>,
     professional_career |->
        [first_role |->
            <<<<"joining_date", "2012-07-01 00:00:00">>,
              <<"designation", "Junior Developer">>,
              <<"salary", "350000">>, <<"currency", "INR">>>>,
         current_role |->
            <<<<"organization", "Resse Analytics">>,
              <<"joining_date", "2021-06-15 00:00:00">>,
              <<"designation", "Senior Data Engineer">>,
              <<"salary", "2800000">>, <<"currency", "INR">>>>,
         previous_role |->
            <<<<"organization", "LakeCorp Solutions">>,
              <<"joining_date", "2018-02-01 00:00:00">>,
              <<"end_year", "2021">>,
              <<"starting_designation", "Data Analyst">>>>],
     education |->
        [high_school |-> "St. Xavier's School, Jaipur",
         undergraduate |->
            <<<<"degree", "B.Tech (Computer Science)">>, <<"college", "IIT Delhi">>,
              <<"year", "2011">>, <<"cgpa", "8.7">>>>,
         graduation |->
            <<<<"degree", "M.Tech (Data Science)">>, <<"college", "IIT Bombay">>,
              <<"year", "2013">>, <<"cgpa", "9.2">>>>]
        @@ ("12th_passout_year" :> "2007") @@ ("12th_board_score" :> "0.925"),
     certifications |->
        <<[name |-> "AWS Solutions Architect", year |-> "2019", score |-> "920 out of 1000"],
          [name |-> "Azure Data Engineer", year |-> "2020", score |-> "875 points"],
          [name |-> "Project Management Professional certification", year |-> "2021",
           rating |-> "Above Target"],
          [name |-> "SAFe Agilist certification", score |-> "98%"]>>,
     technical_proficiency |->
        "In terms of technical proficiency, Vijay rates himself highly across various skills, with SQL expertise at a perfect 10 out of 10, reflecting his daily usage since 2012. His Python proficiency scores 9 out of 10, backed by over seven years of practical experience, while his machine learning capabilities rate 8 out of 10, representing five years of hands-on implementation. His cloud platform expertise, including AWS and Azure certifications, also rates 9 out of 10 with more than four years of experience, and his data visualization skills in Power BI and Tableau score 8 out of 10, establishing him as an expert in the field."]

\* an extraction that reads its argument: no certification found in a text
\* that is not the sample
simulate_ai_extraction_ReadsText(text) ==
    IF text = sample_text THEN ai_extraction
    ELSE [ai_extraction EXCEPT !.certifications = <<>>]

\* an extraction that loses the last certification
simulate_ai_extraction_ThreeCerts(text) ==
    [ai_extraction EXCEPT !.certifications = SubSeq(@, 1, 3)]

\* simulate_ai_extraction(text_content) returns the literal, whatever the text is
simulate_ai_extraction(text) == ai_extraction

\* key.replace("_", " ").title(), on the keys of the model that no table knows
TitleCase(key) ==
    CASE key = "middle_name"    -> "Middle Name"
      [] key = "notice_period"  -> "Notice Period"
      [] key = "team_size"      -> "Team Size"
      [] key = "exit_reason"    -> "Exit Reason"
      [] key = "roll_number"    -> "Roll Number"
      [] key = "thesis_title"   -> "Thesis Title"

\* the static label tables of the six format_* methods
key_mapping ==
    ("first_name" :> "First Name") @@ ("last_name" :> "Last Name")
    @@ ("date_of_birth" :> "Date of Birth") @@ ("birth_city" :> "Birth City")
    @@ ("birth_state" :> "Birth State") @@ ("age" :> "Age")
    @@ ("blood_group" :> "Blood Group") @@ ("nationality" :> "Nationality")

first_role_mapping ==
    ("joining_date" :> "Joining Date of first professional role")
    @@ ("designation" :> "Designation of first professional role")
    @@ ("salary" :> "Salary of first professional role")
    @@ ("currency" :> "Salary currency of first professional role")

current_role_mapping ==
    ("organization" :> "Current Organization")
    @@ ("joining_date" :> "Current Joining Date")
    @@ ("designation" :> "Current Designation")
    @@ ("salary" :> "Current Salary")
    @@ ("currency" :> "Current Salary Currency")

previous_role_mapping ==
    ("organization" :> "Previous Organization")
    @@ ("joining_date" :> "Previous Joining Date")
    @@ ("end_year" :> "Previous end year")
    @@ ("starting_designation" :> "Previous Starting Designation")

undergraduate_mapping ==
    ("degree" :> "Undergraduate degree") @@ ("college" :> "Undergraduate college")
    @@ ("year" :> "Undergraduate year") @@ ("cgpa" :> "Undergraduate CGPA")

graduation_mapping ==
    ("degree" :> "Graduation degree") @@ ("college" :> "Graduation college")
    @@ ("year" :> "Graduation year") @@ ("cgpa" :> "Graduation CGPA")

\* key_mapping.get(key, key.replace("_", " ").title())
format_key_name(key) == Get(key_mapping, key, TitleCase(key))

\* the other five return mapping.get(key, key): an unknown key is its own label
format_first_role_key(key) == Get(first_role_mapping, key, key)

format_current_role_key(key) == Get(current_role_mapping, key, key)

format_previous_role_key(key) == Get(previous_role_mapping, key, key)

format_undergraduate_key(key) == Get(undergraduate_mapping, key, key)

format_graduation_key(key) == Get(graduation_mapping, key, key)

personal_comments ==
    ("birth_city" :> "Born and raised in the Pink City of India, his birthplace provides valuable regional profiling context")
    @@ ("birth_state" :> "Born and raised in the Pink City of India, his birthplace provides valuable regional profiling context")
    @@ ("age" :> "As on year 2024. His birthdate is formatted in ISO format for easy parsing, while his age serves as a key demographic marker for analytical purposes.")
    @@ ("blood_group" :> "Emergency contact purposes.")
    @@ ("nationality" :> "Citizenship status is important for understanding his work authorization and visa requirements across different employment opportunities.")

professional_comments ==
    ("current_salary" :> "This salary progression from his starting compensation to his current peak salary of 2,800,000 INR represents a substantial eight-fold increase over his twelve-year career span.")
    @@ ("previous_starting_designation" :> "Promoted in 2019")

education_comments ==
    ("12th_passout_year" :> "His core subjects included Mathematics, Physics, Chemistry, and Computer Science, demonstrating his early aptitude for technical disciplines.")
    @@ ("12th_board_score" :> "Outstanding achievement")
    @@ ("undergraduate_year" :> "Graduating with honors and ranking 15th among 120 students in his class.")
    @@ ("undergraduate_cgpa" :> "On a 10-point scale")
    @@ ("graduation_cgpa" :> "Considered exceptional and scoring 95 out of 100 for his final year thesis project.")
    @@ ("graduation_college" :> "Continued academic excellence at IIT Bombay")

\* keyed by the 0-based index of enumerate()
certification_comments ==
    (0 :> "Vijay's commitment to continuous learning is evident through his impressive certification scores. He passed the AWS Solutions Architect exam in 2019 with a score of 920 out of 1000")
    @@ (1 :> "Pursued in the year 2020 with 875 points.")
    @@ (2 :> "Obtained in 2021, was achieved with an \"Above Target\" rating from PMI, These certifications complement his practical experience and demonstrate his expertise across multiple technology platforms.")
    @@ (3 :> "Earned him an outstanding 98% score. Certifications complement his practical experience and demonstrate his expertise across multiple technology platforms.")

\* the label and the comment of one item of a category's loop
CategoryLabel(cat, key) ==
    CASE cat = "personal_info"  -> format_key_name(key)
      [] cat = "first_role"     -> format_first_role_key(key)
      [] cat = "current_role"   -> format_current_role_key(key)
      [] cat = "previous_role"  -> format_previous_role_key(key)
      [] cat = "undergraduate"  -> format_undergraduate_key(key)
      [] cat = "graduation"     -> format_graduation_key(key)

CategoryComment(cat, key) ==
    CASE cat = "personal_info"  -> Get(personal_comments, key, "")
      [] cat = "first_role"     -> ""
      [] cat = "current_role"   -> Get(professional_comments, "current_" \o key, "")
      [] cat = "previous_role"  -> Get(professional_comments, "previous_" \o key, "")
      [] cat = "undergraduate"  -> Get(education_comments, "undergraduate_" \o key, "")
      [] cat = "graduation"     -> Get(education_comments, "graduation_" \o key, "")

\* the append without "record_num += 1"
Emit_NoIncrement(acc, label, value, comment) ==
    [structured_data |->
        Append(acc.structured_data, Row(acc.record_num, label, value, comment)),
     record_num |-> acc.record_num]

\* structured_data.append({"#": record_num, ...}); record_num += 1
Emit(acc, label, value, comment) ==
    [structured_data |->
        Append(acc.structured_data, Row(acc.record_num, label, value, comment)),
     record_num |-> acc.record_num + 1]

\* the loop over the items taken from the last to the first
RECURSIVE CategoryLoop_Reversed(_, _, _)
CategoryLoop_Reversed(acc, items, cat) ==
    IF items = <<>> THEN acc
    ELSE LET last == items[Len(items)]
         IN  CategoryLoop_Reversed(
                 Emit(acc, CategoryLabel(cat, last[1]), last[2], CategoryComment(cat, last[1])),
                 SubSeq(items, 1, Len(items) - 1), cat)

\* "for key, value in <dict>.items(): append; record_num += 1"
RECURSIVE CategoryLoop(_, _, _)
CategoryLoop(acc, items, cat) ==
    IF items = <<>> THEN acc
    ELSE CategoryLoop(Emit(acc, CategoryLabel(cat, Head(items)[1]), Head(items)[2],
                           CategoryComment(cat, Head(items)[1])),
                      Tail(items), cat)

\* the loop labelling with the 0-based index of enumerate()
RECURSIVE CertificationLoop_ZeroBased(_, _, _)
CertificationLoop_ZeroBased(acc, certs, i) ==
    IF certs = <<>> THEN acc
    ELSE CertificationLoop_ZeroBased(
             Emit(acc, "Certifications " \o ToString(i), Head(certs).name,
                  Get(certification_comments, i, "")),
             Tail(certs), i + 1)

\* "for i, cert in enumerate(ai_data["certifications"]): ..."; i is 0-based
RECURSIVE CertificationLoop(_, _, _)
CertificationLoop(acc, certs, i) ==
    IF certs = <<>> THEN acc
    ELSE CertificationLoop(Emit(acc, "Certifications " \o ToString(i + 1), Head(certs).name,
                                Get(certification_comments, i, "")),
                           Tail(certs), i + 1)

\* the last append is not followed by "record_num += 1"
structure_ai_output(ai) ==
    LET a0 == [structured_data |-> <<>>, record_num |-> 1]
        a1 == CategoryLoop(a0, ai.personal_info, "personal_info")
        a2 == CategoryLoop(a1, ai.professional_career.first_role, "first_role")
        a3 == CategoryLoop(a2, ai.professional_career.current_role, "current_role")
        a4 == CategoryLoop(a3, ai.professional_career.previous_role, "previous_role")
        a5 == Emit(a4, "High School", ai.education.high_school, "")
        a6 == Emit(a5, "12th standard pass out year", ai.education["12th_passout_year"],
                   education_comments["12th_passout_year"])
        a7 == Emit(a6, "12th overall board score", ai.education["12th_board_score"],
                   education_comments["12th_board_score"])
        a8 == CategoryLoop(a7, ai.education.undergraduate, "undergraduate")
        a9 == CategoryLoop(a8, ai.education.graduation, "graduation")
        a10 == CertificationLoop(a9, ai.certifications, 0)
    IN  Append(a10.structured_data,
               Row(a10.record_num, "Technical Proficiency", "", ai.technical_proficiency))

(***************************************************************************)
(* Inputs of structure_ai_output: records with the required categories,    *)
(* each category empty, as simulate_ai_extraction declares it, or with its *)
(* first two keys swapped around a key no table knows; any list of         *)
(* certifications up to MaxCerts.                                          *)
(***************************************************************************)
MaxCerts == 5

\* the record the inputs of structure_ai_output are varied from
ConstantRecord == ai_extraction

Variants(d, unknown) == {<<>>, d, <<d[2], <<unknown, "value of " \o unknown>>, d[1]>>}

CertPool == {ConstantRecord.certifications[1], ConstantRecord.certifications[4]}

SeqsUpTo(S, n) == UNION {[1..k -> S] : k \in 0..n}

AiInputs ==
    {[personal_info |-> p,
      professional_career |-> [first_role |-> f, current_role |-> c, previous_role |-> pr],
      education |->
          [high_school |-> ConstantRecord.education.high_school,
           undergraduate |-> ug, graduation |-> g]
          @@ ("12th_passout_year" :> ConstantRecord.education["12th_passout_year"])
          @@ ("12th_board_score" :> ConstantRecord.education["12th_board_score"]),
      certifications |-> cs,
      technical_proficiency |-> ConstantRecord.technical_proficiency] :
        p \in Variants(ConstantRecord.personal_info, "middle_name"),
        f \in Variants(ConstantRecord.professional_career.first_role, "notice_period"),
        c \in Variants(ConstantRecord.professional_career.current_role, "team_size"),
        pr \in Variants(ConstantRecord.professional_career.previous_role, "exit_reason"),
        ug \in Variants(ConstantRecord.education.undergraduate, "roll_number"),
        g \in Variants(ConstantRecord.education.graduation, "thesis_title"),
        cs \in SeqsUpTo(CertPool, MaxCerts)}

\* the texts process_document is called with
DocumentTexts == {sample_text, PlainText, EmptyText}

\* no DocumentProcessor is at work while the AIDocumentProcessor is examined
InitProcessorIdle ==
    /\ text_content = NoneText
    /\ extracted_data = <<>>
    /\ processing_log = <<>>
    /\ xlsx_file = AbsentFile
    /\ json_file = AbsentFile
    /\ pc = "idle"
    /\ calls = 0
    /\ ret = Ret("__init__", "none", 0, 0)
    /\ returned = <<>>

\* api_key or os.getenv("GEMINI_API_KEY"): a key, or None
ApiKeys == {"None", "key"}

\* structure_ai_output examined on the records a caller may supply
InitStructure ==
    /\ InitAICaller
    /\ ai_data \in AiInputs
    /\ ai_pc = "start"
    /\ api_key = "None"
    /\ ai_xlsx_file = AbsentFile
    /\ ai_json_file = AbsentFile

\* main(), or a free client ("client"), on a fresh AIDocumentProcessor
InitPipeline ==
    /\ InitAICaller
    /\ ai_data = <<>>
    /\ ai_pc \in {"process_document", "client"}
    /\ api_key \in ApiKeys
    /\ ai_xlsx_file \in InitFiles
    /\ ai_json_file \in InitFiles

InitAI == InitProcessorIdle /\ (InitStructure \/ InitPipeline)

\* main calls process_document, save_to_excel and save_to_json in this order
\* and an exception of any of them ends it; a free client calls in any order
AiMayCall(op) == (ai_pc = "client" /\ ai_calls < MaxCalls) \/ ai_pc = op

MainNext(op) ==
    CASE op = "process_document" -> "save_to_excel"
      [] op = "save_to_excel"    -> "save_to_json"
      [] op = "save_to_json"     -> "done"

AiAfter(op, exc) ==
    IF ai_pc = "client" THEN "client"
    ELSE IF exc # "none" THEN "aborted" ELSE MainNext(op)

\* structure_ai_output(ai_data) on a record the caller supplies
StructureAiOutput ==
    /\ ai_pc = "start"
    /\ structured_data' = structure_ai_output(ai_data)
    /\ ai_pc' = "structured"
    /\ UNCHANGED <<ai_data, api_key, ai_text, ai_xlsx_file, ai_json_file, ai_calls,
                   ai_ret, ai_returned, dp_vars>>

\* process_document(text_content): no check of the text, extraction, structuring;
\* the record, the rows and the exception ("none": the rows are returned)
ProcessDocumentResult(text) ==
    LET record == simulate_ai_extraction(text)
    IN  [ai_data |-> record, rows |-> structure_ai_output(record), exc |-> "none"]

process_document ==
    /\ AiMayCall("process_document")
    /\ \E text \in DocumentTexts :
         LET r == ProcessDocumentResult(text)
         IN  /\ ai_text' = text
             /\ ai_data' = IF r.exc = "none" THEN r.ai_data ELSE ai_data
             /\ structured_data' = IF r.exc = "none" THEN r.rows ELSE structured_data
             /\ ai_returned' = IF r.exc = "none"
                               THEN Append(ai_returned, [text |-> text, rows |-> r.rows])
                               ELSE ai_returned
             /\ ai_ret' = AiRet("process_document", r.exc)
             /\ ai_pc' = AiAfter("process_document", r.exc)
    /\ ai_calls' = ai_calls + 1
    /\ UNCHANGED <<api_key, ai_xlsx_file, ai_json_file, dp_vars>>

\* AIDocumentProcessor.save_to_excel / save_to_json: no try, no check of the
\* rows; the rows after the call, the destination and the exception
AiSaveResult(data, file, io) ==
    [data |-> data, file |-> WrittenFile(file, data, io),
     exc |-> IF io = "ok" THEN "none" ELSE "OSError"]

ai_save_to_excel ==
    /\ AiMayCall("save_to_excel")
    /\ \E io \in IoOutcomes :
         LET r == AiSaveResult(structured_data, ai_xlsx_file, io)
         IN  /\ structured_data' = r.data
             /\ ai_xlsx_file' = r.file
             /\ ai_ret' = AiRet("save_to_excel", r.exc)
             /\ ai_pc' = AiAfter("save_to_excel", r.exc)
    /\ ai_calls' = ai_calls + 1
    /\ UNCHANGED <<ai_data, api_key, ai_text, ai_json_file, ai_returned, dp_vars>>

ai_save_to_json ==
    /\ AiMayCall("save_to_json")
    /\ \E io \in IoOutcomes :
         LET r == AiSaveResult(structured_data, ai_json_file, io)
         IN  /\ structured_data' = r.data
             /\ ai_json_file' = r.file
             /\ ai_ret' = AiRet("save_to_json", r.exc)
             /\ ai_pc' = AiAfter("save_to_json", r.exc)
    /\ ai_calls' = ai_calls + 1
    /\ UNCHANGED <<ai_data, api_key, ai_text, ai_xlsx_file, ai_returned, dp_vars>>

NextAI ==
    \/ StructureAiOutput
    \/ process_document
    \/ ai_save_to_excel
    \/ ai_save_to_json

SpecAI == InitAI /\ [][NextAI]_vars

\* both classes: a run is a run of one of the two processors
InitBoth == Init \/ InitAI

NextBoth == Next \/ NextAI

SpecBoth == InitBoth /\ [][NextBoth]_vars

(***************************************************************************)
(* C9, C10: AIDocumentProcessor.structure_ai_output.                       *)
(***************************************************************************)
Structured == ai_pc = "structured" \/ ai_returned # <<>>

\* C9: the rows of structure_ai_output carry the numbers 1..len(rows) in list
\* order, and the Technical Proficiency row is the last and carries len(rows).
C9_AiNumbersContiguous ==
    Structured =>
        /\ Numbered1ToN(structured_data)
        /\ Len(structured_data) >= 1
        /\ structured_data[Len(structured_data)].Key = "Technical Proficiency"
        /\ structured_data[Len(structured_data)].num = Len(structured_data)

\* no certification, an empty category, and still rows before the last one
C9_Witness ==
    /\ ai_pc = "structured"
    /\ ai_data.certifications = <<>>
    /\ ai_data.personal_info = <<>>
    /\ Len(structured_data) > 4

\* the values of the source, category by category in the order of the claim
Segments(ai) ==
    <<[v \in DOMAIN ai.personal_info |-> ai.personal_info[v][2]],
      [v \in DOMAIN ai.professional_career.first_role |->
          ai.professional_career.first_role[v][2]],
      [v \in DOMAIN ai.professional_career.current_role |->
          ai.professional_career.current_role[v][2]],
      [v \in DOMAIN ai.professional_career.previous_role |->
          ai.professional_career.previous_role[v][2]],
      <<ai.education.high_school>>,
      <<ai.education["12th_passout_year"]>>,
      <<ai.education["12th_board_score"]>>,
      [v \in DOMAIN ai.education.undergraduate |-> ai.education.undergraduate[v][2]],
      [v \in DOMAIN ai.education.graduation |-> ai.education.graduation[v][2]],
      [v \in DOMAIN ai.certifications |-> ai.certifications[v].name],
      <<"">>>>

RECURSIVE Offset(_, _)
Offset(segs, k) == IF k = 1 THEN 0 ELSE Offset(segs, k - 1) + Len(segs[k - 1])

\* C10: the rows are the categories in the fixed order personal, first role,
\* current role, previous role, high school, 12th year, 12th score,
\* undergraduate, graduation, certifications, technical summary, each in the
\* order of the source's items: the k-th category fills the positions after
\* those of the categories before it, item by item.
C10_CategoryOrder ==
    Structured =>
        LET segs == Segments(ai_data)
        IN  /\ Len(structured_data) = Offset(segs, Len(segs) + 1)
            /\ \A k \in DOMAIN segs : \A i \in DOMAIN segs[k] :
                   structured_data[Offset(segs, k) + i].Value = segs[k][i]
            /\ structured_data[Offset(segs, 5) + 1].Key = "High School"
            /\ structured_data[Offset(segs, 6) + 1].Key = "12th standard pass out year"
            /\ structured_data[Offset(segs, 7) + 1].Key = "12th overall board score"
            /\ \A i \in DOMAIN segs[10] :
                   structured_data[Offset(segs, 10) + i].Key = "Certifications " \o ToString(i)
            /\ structured_data[Offset(segs, 11) + 1].Key = "Technical Proficiency"

\* every category has items, two of them out of the declared order
C10_Witness ==
    /\ ai_pc = "structured"
    /\ Len(ai_data.personal_info) = 3
    /\ Len(ai_data.professional_career.first_role) = 4
    /\ Len(ai_data.professional_career.current_role) = 3
    /\ Len(ai_data.professional_career.previous_role) = 4
    /\ Len(ai_data.education.undergraduate) = 4
    /\ Len(ai_data.education.graduation) = 3
    /\ Len(ai_data.certifications) = 2
    /\ ai_data.certifications[1] # ai_data.certifications[2]

(***************************************************************************)
(* C11, C12: labels of structure_ai_output.                                *)
(***************************************************************************)
\* the categories flattened by a loop over items: the items, the static label
\* table of the category, and the place of the category in Segments
LoopedCategories(ai) ==
    <<[items |-> ai.personal_info, table |-> key_mapping, seg |-> 1],
      [items |-> ai.professional_career.first_role, table |-> first_role_mapping, seg |-> 2],
      [items |-> ai.professional_career.current_role, table |-> current_role_mapping, seg |-> 3],
      [items |-> ai.professional_career.previous_role, table |-> previous_role_mapping, seg |-> 4],
      [items |-> ai.education.undergraduate, table |-> undergraduate_mapping, seg |-> 8],
      [items |-> ai.education.graduation, table |-> graduation_mapping, seg |-> 9]>>

\* the row of the i-th item of the category at place seg of Segments
RowOfItem(ai, rows, seg, i) == rows[Offset(Segments(ai), seg) + i]

\* C11: in every looped category, a key the category's label table does not
\* hold is labelled by the key with "_" replaced by " " and title-cased.
C11_TitleCaseFallback ==
    ai_pc = "structured" =>
        \A c \in DOMAIN LoopedCategories(ai_data) :
            LET cat == LoopedCategories(ai_data)[c]
            IN  \A i \in DOMAIN cat.items :
                    cat.items[i][1] \notin DOMAIN cat.table =>
                        RowOfItem(ai_data, structured_data, cat.seg, i).Key
                            = TitleCase(cat.items[i][1])

\* the rows of the certifications: row N of them is the certification at
\* position N, labelled by prefix and N, with the comment of index N - 1 or ""
CertificationRowsAre(ai, rows, prefix) ==
    LET off == Offset(Segments(ai), 10)
        n == Len(ai.certifications)
    IN  /\ Len(rows) = off + n + 1
        /\ \A N \in 1..n :
              /\ rows[off + N].Key = prefix \o ToString(N)
              /\ rows[off + N].Value = ai.certifications[N].name
              /\ rows[off + N].Comments =
                     (IF N - 1 \in DOMAIN certification_comments
                      THEN certification_comments[N - 1] ELSE "")

\* C12 as stated: n certification rows in list order, the N-th labelled
\* "Certification N", with the certification's name and the static comment of
\* its index or "".
C12_CertificationLabels ==
    ai_pc = "structured" => CertificationRowsAre(ai_data, structured_data, "Certification ")

\* C12 as amended: the same, the N-th row labelled "Certifications N".
C12_CertificationsLabels ==
    ai_pc = "structured" => CertificationRowsAre(ai_data, structured_data, "Certifications ")

\* five certifications, not in alphabetical order, the fifth without comment
C12_Witness ==
    /\ ai_pc = "structured"
    /\ Len(ai_data.certifications) = 5
    /\ ai_data.certifications[1].name = "SAFe Agilist certification"
    /\ ai_data.certifications[2].name = "AWS Solutions Architect"
    /\ structured_data[Len(structured_data) - 1].Key = "Certifications 5"
    /\ structured_data[Len(structured_data) - 1].Comments = ""

(***************************************************************************)
(* C13, C14, C20: AIDocumentProcessor.process_document and main.           *)
(***************************************************************************)
\* the rows process_document returns for the sample text of main
SampleRows == structure_ai_output(simulate_ai_extraction(sample_text))

\* C13: whatever text process_document is given and whatever api_key the
\* processor holds, the rows it returns are the rows of the sample text; any
\* two calls return the same rows.
C13_OutputIndependentOfInput ==
    /\ \A i \in DOMAIN ai_returned : ai_returned[i].rows = SampleRows
    /\ \A i, j \in DOMAIN ai_returned : ai_returned[i].rows = ai_returned[j].rows

\* two calls with different texts on a processor that holds a key
C13_Witness ==
    /\ Len(ai_returned) = 2
    /\ ai_returned[1].text = sample_text
    /\ ai_returned[2].text = EmptyText
    /\ api_key = "key"

\* C14: in main, process_document on the empty string raises the empty-input
\* error: main ends there, with no row produced and neither file written.
C14_AiEmptyInputRaises ==
    (ai_pc # "client" /\ ai_text = EmptyText) =>
        /\ ai_pc = "aborted"
        /\ ai_ret.op = "process_document"
        /\ ai_ret.exc # "none"
        /\ structured_data = <<>>
        /\ ai_xlsx_file \in InitFiles
        /\ ai_json_file \in InitFiles

\* "Expected records: 37" of main
ExpectedRecords == 37

\* the fields of a structured record, each certification counted once
FieldCounts(ai) ==
    <<Len(ai.personal_info),
      Len(ai.professional_career.first_role),
      Len(ai.professional_career.current_role),
      Len(ai.professional_career.previous_role),
      Cardinality(DOMAIN ai.education \ {"undergraduate", "graduation"}),
      Len(ai.education.undergraduate),
      Len(ai.education.graduation),
      Len(ai.certifications),
      1>>

RECURSIVE SumSeq(_)
SumSeq(q) == IF q = <<>> THEN 0 ELSE Head(q) + SumSeq(Tail(q))

\* C20: process_document returns exactly 37 rows for every text, the number
\* of fields of the constant record: 8 personal, 4 first role, 5 current role,
\* 4 previous role, 3 school, 4 undergraduate, 4 graduation, 4 certifications,
\* 1 technical summary.
C20_ThirtySevenRows ==
    ai_returned # <<>> =>
        /\ \A i \in DOMAIN ai_returned : Len(ai_returned[i].rows) = ExpectedRecords
        /\ FieldCounts(ai_data) = <<8, 4, 5, 4, 3, 4, 4, 4, 1>>
        /\ SumSeq(FieldCounts(ai_data)) = ExpectedRecords

\* main has processed a text that is not its sample and written both files
C20_Witness ==
    /\ ai_pc = "done"
    /\ ai_text = PlainText
    /\ Len(structured_data) = ExpectedRecords
    /\ ai_json_file = CompleteFile(structured_data)

(***************************************************************************)
(* C15..C19: the exporters, the log and the summary.                       *)
(***************************************************************************)
\* a step of the named method of DocumentProcessor
StepOf(op) == ret'.op = op /\ calls' = calls + 1

\* a step of the named method of AIDocumentProcessor
AiStepOf(op) == ai_ret'.op = op /\ ai_calls' = ai_calls + 1

\* C15: in demo_usage, when the write of the spreadsheet fails the run still
\* goes on to save_to_json, and a failed write of either file leaves
\* extracted_data as it was.
C15_SinkFailureIsLocal ==
    [][/\ (pc = "save_to_excel" /\ StepOf("save_to_excel") /\ ret'.exc = "OSError")
            => (pc' = "save_to_json" /\ extracted_data' = extracted_data)
       /\ (pc = "save_to_json" /\ StepOf("save_to_json") /\ ret'.exc = "OSError")
            => extracted_data' = extracted_data]_vars

\* C16: after a save_to_json of either class that failed, the destination is
\* absent, holds what it held before, or holds the complete new rows: never
\* the beginning of an export.
C16_NoPartialJson ==
    /\ (ret.op = "save_to_json" /\ ret.exc # "none") => json_file.state # "partial"
    /\ (ai_ret.op = "save_to_json" /\ ai_ret.exc # "none") =>
            ai_json_file.state # "partial"

\* C17: save_to_excel and save_to_json of DocumentProcessor leave
\* extracted_data as it was, and those of AIDocumentProcessor leave the list
\* they are given as it was, whether they return or raise.
C17_ExportersKeepRows ==
    [][/\ (StepOf("save_to_excel") \/ StepOf("save_to_json"))
            => extracted_data' = extracted_data
       /\ (AiStepOf("save_to_excel") \/ AiStepOf("save_to_json"))
            => structured_data' = structured_data]_vars

\* a failed export of the 37 rows of process_document
C17_Witness ==
    /\ ai_ret.op = "save_to_excel"
    /\ ai_ret.exc = "OSError"
    /\ Len(structured_data) = ExpectedRecords
    /\ ai_xlsx_file = PartialFile(structured_data)

IsPrefix(old, new) ==
    Len(old) <= Len(new) /\ SubSeq(new, 1, Len(old)) = old

\* the five extract_* sections, run alone on the fields of the processor
SectionLogs ==
    LET st == [data |-> extracted_data, log |-> processing_log, exc |-> "none"]
    IN  {extract_personal_info(text_content, st).log,
         extract_professional_info(text_content, st).log,
         extract_education_info(text_content, st).log,
         extract_certifications(text_content, st).log,
         extract_technical_proficiency(text_content, st).log}

\* C18: every operation of DocumentProcessor leaves the log it found as a
\* prefix of the log it leaves, and so does each extract_* section run alone.
C18_LogAppendOnly ==
    /\ [][IsPrefix(processing_log, processing_log')]_vars
    /\ [](\A log \in SectionLogs : IsPrefix(processing_log, log))

\* a load, a complete process_all and an export, in this order
C18_Witness ==
    /\ Len(processing_log) = 9
    /\ processing_log[1] = Entry("ok", "Loaded content")
    /\ processing_log[2] = StartEntry
    /\ ret.op = "save_to_json"

\* C19: get_processing_summary returns the number of rows and that number
\* as a percentage of 37 to one decimal ("100%" at 37 rows); it raises for no
\* row count and changes neither rows nor log, and process_all on a text that
\* passes its guard returns whatever number of rows it found.
C19_RatioIsDiagnosticOnly ==
    [][/\ StepOf("get_processing_summary") =>
            /\ ret'.exc = "none"
            /\ ret'.n = Len(extracted_data)
            /\ IF ret'.n = 37 THEN ret'.accuracy = 1000
               ELSE 74 * ret'.accuracy - 2000 * ret'.n \in -37..37
            /\ UNCHANGED <<extracted_data, processing_log>>
       /\ (StepOf("process_all") /\ Truthy(text_content)) => ret'.exc = "none"]_vars

\* a summary of zero rows, after a process_all that found none
C19_Witness ==
    /\ ret.op = "get_processing_summary"
    /\ ret.n = 0
    /\ ret.accuracy = 0
    /\ processing_log # <<>>
    /\ processing_log[Len(processing_log)].about = "Processing complete"

(***************************************************************************)
(* C21..C25: row order, the log of one run, exports of an empty list, the  *)
(* unconditional row and load_from_file.                                   *)
(***************************************************************************)
StrictlyIncreasing(rows) ==
    \A i, j \in DOMAIN rows : i < j => rows[i].num < rows[j].num

\* log is old followed by exactly one entry, of the given icon
OneMoreEntry(old, log, icon) ==
    /\ Len(log) = Len(old) + 1
    /\ IsPrefix(old, log)
    /\ log[Len(log)].icon = icon

\* C21: the rows the first process_all of a processor returns carry strictly
\* increasing numbers, all in 1..37, whichever patterns matched.
C21_NumbersIncrease ==
    Len(returned) >= 1 =>
        /\ StrictlyIncreasing(returned[1].rows)
        /\ \A i \in DOMAIN returned[1].rows : returned[1].rows[i].num \in FieldNumbers

\* a first run that found some fields and missed others
C21_Witness ==
    /\ Len(returned) = 1
    /\ Len(returned[1].rows) >= 2
    /\ ~Numbered1ToN(returned[1].rows)
    /\ text_content.matches # {}

\* C22: a process_all that returns appends exactly seven entries: the start
\* entry, one entry (success or error) per section in the order personal,
\* professional, education, certifications, technical proficiency, and the
\* completion entry, whose count is the length of extracted_data at the return.
C22_SevenLogEntries ==
    [][(ProcessAllStep /\ ret'.exc = "none") =>
          /\ SevenEntries(processing_log, processing_log')
          /\ processing_log'[Len(processing_log')] = CompleteEntry(Len(extracted_data'))]_vars

\* the second run of one processor: the completion entry counts the rows of
\* both runs
C22_Witness ==
    /\ JustProcessed
    /\ Len(returned) = 2
    /\ Len(processing_log) = 14
    /\ processing_log[14].n = Len(extracted_data)
    /\ processing_log[14].n > processing_log[7].n
    /\ processing_log[7].n > 0

\* C23: save_to_excel and save_to_json on an empty extracted_data raise
\* ValueError, leave both files as they were, append exactly one error entry
\* and leave extracted_data empty.
C23_EmptyExportRaises ==
    [][((StepOf("save_to_excel") \/ StepOf("save_to_json")) /\ extracted_data = <<>>) =>
          /\ ret'.exc = "ValueError"
          /\ UNCHANGED <<xlsx_file, json_file>>
          /\ OneMoreEntry(processing_log, processing_log', "err")
          /\ extracted_data' = <<>>]_vars

\* an export before any process_all, over a file an earlier run left
C23_Witness ==
    /\ ret = Ret("save_to_excel", "ValueError", 0, 0)
    /\ extracted_data = <<>>
    /\ xlsx_file = PreviousFile
    /\ processing_log = <<Entry("err", "saving to Excel")>>

\* C24: a process_all that returns on a str leaves extracted_data non-empty
\* (the Graduation year row is there whichever patterns matched), and an
\* export that follows it does not raise the ValueError of the empty list.
C24_NeverEmptyAfterRun ==
    [][/\ (ProcessAllStep /\ text_content.kind = "str" /\ ret'.exc = "none") =>
            /\ extracted_data' # <<>>
            /\ HasRow(extracted_data', 31)
       /\ (JustProcessed /\ text_content.kind = "str"
             /\ (StepOf("save_to_excel") \/ StepOf("save_to_json"))) =>
            ret'.exc # "ValueError"]_vars

\* no pattern matched, and the single row was exported
C24_Witness ==
    /\ ret = Ret("save_to_excel", "none", 0, 0)
    /\ text_content = PlainText
    /\ extracted_data = GraduationYearRows(PlainText)
    /\ xlsx_file = CompleteFile(extracted_data)

\* C25: load_from_file leaves extracted_data as it was and appends exactly one
\* entry; when the file cannot be opened or read it raises, the entry is an
\* error entry and text_content keeps its value; otherwise it returns, the
\* entry is a success entry and text_content is the content of the file.
C25_LoadFromFile ==
    [][StepOf("load_from_file") =>
          /\ extracted_data' = extracted_data
          /\ IF ret'.exc = "none"
             THEN /\ OneMoreEntry(processing_log, processing_log', "ok")
                  /\ text_content' \in FileContents
             ELSE /\ ret'.exc = "OSError"
                  /\ OneMoreEntry(processing_log, processing_log', "err")
                  /\ text_content' = text_content]_vars

\* a failed load on a processor that holds rows and a text no file holds
C25_Witness ==
    /\ ret = Ret("load_from_file", "OSError", 0, 0)
    /\ extracted_data # <<>>
    /\ text_content = BadDatesText
    /\ processing_log[Len(processing_log)] = Entry("err", "loading file")

====
